---- MODULE Spec2Model ----
(***************************************************************************)
(* Model of the TruthDare interaction server: the webhook router           *)
(* (Server.handleRequest / Server.handleCommand), the permission check     *)
(* (Functions.checkPerms / Functions.hasPermission), the usage statistics  *)
(* kept in Client.stats and their flush every minute, the public question  *)
(* API behind APIRateLimit, the answer command over the stored paranoia    *)
(* questions, and the GET /metrics route.                                  *)
(***************************************************************************)
EXTENDS Integers, Sequences, FiniteSets, TLC

\* ------------------------------------------------------------------ bounds
NumBits == 2           \* capability bits of the modelled PermissionFlagsBits
MaxDispatch == 2       \* command interactions accepted before the model stops
MaxChecks == 6         \* admission checks per address within one window
MaxDigits == 2         \* digits of a serialized permission string
MaxEntries == 3        \* paranoia questions created for the recipient
MaxMinutes == 2        \* flushes of the statistics before the model stops
MaxPieces == 2         \* pieces of an Authorization header

\* --------------------------------------------------------------- constants
\* a missing string (undefined); never a string of digits
Undefined == <<-1>>

\* ctx.member of an interaction outside a guild
NoMember == [none |-> TRUE]

\* the interactions that can be in flight on /interactions at once
Req == {"r1", "r2"}

\* an allow-list that lets nothing through
PASSTHROUGH_COMMANDS_Empty == {}

\* const PASSTHROUGH_COMMANDS = ['settings']
PASSTHROUGH_COMMANDS == {"settings"}

\* names a chat-input interaction can carry; "nocmd" has no command file
CommandNames == {"settings", "dare", "nocmd"}

\* the single-bit flags of PermissionFlagsBits, 1 << b
PermissionFlagsBits == [b \in 0..(NumBits - 1) |-> 2 ^ b]

Masks == 0..(2 ^ NumBits - 1)

\* Object.keys(PermissionFlagsBits): the keys of the table in its own order,
\* the key at place i naming the flag 1 << (i - 1)
PermissionKeys ==
  SubSeq(<<"CreateInstantInvite", "KickMembers", "BanMembers", "Administrator",
           "ManageChannels">>, 1, NumBits)

\* PermissionFlagsBits[key]
KeyFlag(key) ==
  PermissionFlagsBits[(CHOOSE i \in DOMAIN PermissionKeys :
                         PermissionKeys[i] = key) - 1]

\* p.replaceAll(/([a-z])([A-Z])/g, '$1 $2') on the keys of the table
Label ==
  [key \in {"CreateInstantInvite", "KickMembers", "BanMembers", "Administrator",
            "ManageChannels"} |->
     CASE key = "CreateInstantInvite" -> "Create Instant Invite"
       [] key = "KickMembers" -> "Kick Members"
       [] key = "BanMembers" -> "Ban Members"
       [] key = "Administrator" -> "Administrator"
       [] key = "ManageChannels" -> "Manage Channels"]

\* ------------------------------------------------------- BigInt arithmetic
\* a & b on two's-complement integers of unbounded width
RECURSIVE BitAnd(_, _)
BitAnd(a, b) ==
  IF a = 0 \/ b = 0 THEN 0
  ELSE IF a = -1 THEN b
  ELSE IF b = -1 THEN a
  ELSE (a % 2) * (b % 2) + 2 * BitAnd(a \div 2, b \div 2)

\* a | b
RECURSIVE BitOr(_, _)
BitOr(a, b) ==
  IF a = 0 THEN b
  ELSE IF b = 0 THEN a
  ELSE IF a = -1 \/ b = -1 THEN -1
  ELSE (IF a % 2 = 1 \/ b % 2 = 1 THEN 1 ELSE 0) + 2 * BitOr(a \div 2, b \div 2)

\* ~a
BitNot(a) == -a - 1

\* BigInt(str) for a string of decimal digits, given as a sequence of digits
RECURSIVE ParseBigInt(_)
ParseBigInt(str) ==
  IF str = <<>> THEN 0
  ELSE 10 * ParseBigInt(SubSeq(str, 1, Len(str) - 1)) + str[Len(str)]

\* the decimal serialization of n, as the platform sends member.permissions
RECURSIVE DecStr(_)
DecStr(n) == IF n < 10 THEN <<n>> ELSE Append(DecStr(n \div 10), n % 10)

\* ------------------------------------------------------------- permissions
\* command.perms.map(...).reduce((a, c) => a | c, 0n)
RECURSIVE RequiredMask(_)
RequiredMask(perms) ==
  IF perms = <<>> THEN 0
  ELSE BitOr(RequiredMask(SubSeq(perms, 1, Len(perms) - 1)), perms[Len(perms)])

\* required & BigInt(ctx.member.permissions), the complement left out
MissingMaskGrantedOnly(perms, permissions) ==
  BitAnd(RequiredMask(perms), ParseBigInt(permissions))

\* required & ~BigInt(ctx.member.permissions)
MissingMask(perms, permissions) ==
  BitAnd(RequiredMask(perms), BitNot(ParseBigInt(permissions)))

\* the keys of every required flag, granted or not
missingNamesOfRequired(perms, permissions) ==
  SelectSeq(PermissionKeys,
            LAMBDA key : BitAnd(KeyFlag(key), RequiredMask(perms)) # 0)

\* Object.keys(PermissionFlagsBits).filter(key => PermissionFlagsBits[key] & missing)
missingNames(perms, permissions) ==
  SelectSeq(PermissionKeys,
            LAMBDA key : BitAnd(KeyFlag(key), MissingMask(perms, permissions)) # 0)

\* the labels listed in the reply of checkPerms, in the order they are joined
MissingLabels(perms, permissions) ==
  LET names == missingNames(perms, permissions)
  IN [i \in DOMAIN names |-> Label[names[i]]]

\* a check that lets every caller through
checkPermsAlwaysTrue(perms, member) == TRUE

\* the boolean returned by checkPerms
checkPerms(perms, member) ==
  IF member = NoMember THEN TRUE
  ELSE MissingMask(perms, member.permissions) = 0

\* hasPermission(permission, permissions)
hasPermission(permission, permissions) ==
  IF permissions = Undefined \/ permissions = <<>> THEN TRUE
  ELSE BitAnd(permission, BitNot(ParseBigInt(permissions))) = 0

\* ------------------------------------------------------------------- state
VARIABLES
  commands,      \* Client.commands: name -> perms of each loaded command file
  ix,            \* the interactions in flight on POST /interactions
  stats,         \* Client.stats
  commandUse,    \* calls of metrics.trackCommandUse, by success flag
  hits,          \* the store of APIRateLimit: address -> count in this window
  windowChecks,  \* admission checks per address since the last window reset
  windowGivenBack, \* decrements per address since the last window reset
  api,           \* the requests in flight on /api/ and /v1/
  permCase,      \* one evaluation of the permission functions
  paranoia,      \* the stored paranoia questions of one recipient, oldest first
  created,       \* paranoia questions created so far
  delivering,    \* entries whose first notification the producer is sending
  answer,        \* the runs of the answer command in flight
  metricsReq     \* one request on GET /metrics

vars == <<commands, ix, stats, commandUse, hits, windowChecks, windowGivenBack,
          api, permCase, paranoia, created, delivering, answer, metricsReq>>

paranoiaVars == <<paranoia, created, delivering, answer>>
otherVars == <<paranoiaVars, metricsReq>>

routerVars == <<commands, ix, stats, commandUse>>
limiterVars == <<hits, windowChecks, windowGivenBack>>

Registered == {"settings", "dare"}

IPs == {"ip1", "ip2"}

\* the perms lists a loaded command file can have: none, one or two of the
\* flags (the router treats the flags alike, so the first ones stand for any)
LoadedPermLists ==
  {<<>>, <<PermissionFlagsBits[0]>>,
   <<PermissionFlagsBits[0], PermissionFlagsBits[1]>>}

\* ctx.member: permissions is the platform's decimal serialization
Members == {NoMember} \cup {[permissions |-> DecStr(m)] : m \in Masks}

IdleIx ==
  [pc |-> "idle", kind |-> "none", name |-> "none", member |-> NoMember,
   verified |-> FALSE, rateLimit |-> "none", fetched |-> "none",
   replies |-> <<>>, handlerRan |-> FALSE, outcome |-> "none",
   errored |-> FALSE,
   escaped |-> FALSE, logged |-> FALSE, reported |-> 0, tracked |-> "none"]

Reply(kind, missing) == [kind |-> kind, missing |-> missing]

\* a number that is not whole is kept as a fraction in lowest terms
RECURSIVE Gcd(_, _)
Gcd(a, b) == IF b = 0 THEN a ELSE Gcd(b, a % b)

Frac(n, d) == [num |-> n \div Gcd(n, d), den |-> d \div Gcd(n, d)]

\* Client.constructor and the loop at the head of Client.start
InitStats ==
  [minuteCommandCount |-> 0,
   perMinuteCommandAverage |-> Frac(0, 1),
   minutesPassed |-> 0,
   commands |-> [c \in Registered |-> 0],
   minuteCommands |-> [c \in Registered |-> 0]]

\* ------------------------------------------------------------ rate limiter
\* windowMs: 5 * 1000 is the period of WindowReset; max: 5
RateLimitMax == 5

\* the limiter mounted in front of every route
RouteLimitedEverywhere(path) == TRUE

\* router.use('/api/', APIRateLimit); router.use('/v1/', APIRateLimit)
RouteLimited(path) == path \in {"/api/", "/v1/"}

\* the count after the request of address ip has been counted
HitsAfter(ip) == hits[ip] + 1

\* a limiter that already turns away the request that reaches max
AdmitsAtMax(current) == current < RateLimitMax

\* whether the limiter lets the request through: current > max calls handler
Admits(current) == ~(current > RateLimitMax)

\* the middleware stack in front of a route: the limiter counts the request
\* of address ip when it is mounted on the path, and leaves it alone otherwise
Admission(path, ip, result) ==
  IF RouteLimited(path)
  THEN /\ windowChecks[ip] < MaxChecks
       /\ hits' = [hits EXCEPT ![ip] = HitsAfter(ip)]
       /\ windowChecks' = [windowChecks EXCEPT ![ip] = @ + 1]
       /\ windowGivenBack' = windowGivenBack
       /\ result = IF Admits(HitsAfter(ip)) THEN "admitted" ELSE "rejected"
  ELSE /\ UNCHANGED limiterVars
       /\ result = "none"

\* ------------------------------------------------------------------ router
\* only the lifetime counter raised
CountDispatchLifetimeOnly(s, name) ==
  [s EXCEPT !.commands[name] = @ + 1]

\* the three increments under "// Statistics" in handleCommand
CountDispatch(s, name) ==
  [s EXCEPT !.minuteCommandCount = @ + 1,
            !.commands[name] = @ + 1,
            !.minuteCommands[name] = @ + 1]

\* a gate that never stops a command
MuteGateOff(muted, name) == FALSE

\* (await ctx.channelSettings).muted && !PASSTHROUGH_COMMANDS.includes(name)
MuteGate(muted, name) == muted /\ name \notin PASSTHROUGH_COMMANDS

\* every use tracked as a success
TrackedAsSuccess(commandErrored) == "success"

\* the second argument of trackCommandUse: !commandErrored
Tracked(commandErrored) == IF commandErrored THEN "failure" ELSE "success"

\* command interactions that will still reach the statistics
Pending ==
  Cardinality({r \in Req : ix[r].kind = "command" /\ ix[r].pc = "settings"})

Dispatched == stats.commands["settings"] + stats.commands["dare"]

\* POST /interactions: the middleware in front of the route, then
\* verifyKeyMiddleware, then handleRequest up to its first await
ReceiveInteraction(r) ==
  /\ ix[r].pc = "idle"
  /\ \E ip \in IPs, sig \in BOOLEAN, kind \in {"command", "button", "other"},
        name \in CommandNames \cup {"none"}, member \in Members,
        rl \in {"none", "admitted", "rejected"} :
       /\ Admission("/interactions", ip, rl)
       /\ IF kind = "command"
          THEN name \in CommandNames /\ Dispatched + Pending < MaxDispatch
          ELSE name = "none" /\ member = NoMember
       /\ ~sig => kind = "other"
       /\ ix' = [ix EXCEPT ![r] =
            IF ~sig
            THEN \* 401 from verifyKeyMiddleware, handleRequest is not called
                 [IdleIx EXCEPT !.pc = "done", !.rateLimit = rl]
            ELSE [IdleIx EXCEPT
                    \* neither a chat-input command nor a button: falls
                    \* through both branches of handleRequest
                    !.pc = IF kind = "other" THEN "done" ELSE "settings",
                    !.kind = kind, !.name = name, !.member = member,
                    !.verified = TRUE, !.rateLimit = rl]]
  /\ UNCHANGED <<commands, stats, commandUse, api, permCase, otherVars>>

\* handleCommand from its head up to the first await inside command.run
HandleCommand(r, x) ==
  IF x.name \notin DOMAIN commands
  THEN \* console.error: no corresponding command file
       /\ ix' = [ix EXCEPT ![r] = [x EXCEPT !.pc = "done", !.logged = TRUE]]
       /\ UNCHANGED <<stats, commandUse>>
  ELSE IF ~checkPerms(commands[x.name], x.member)
  THEN \* the reply sent by checkPerms itself
       /\ ix' = [ix EXCEPT ![r] =
            [x EXCEPT !.pc = "done",
                      !.replies = Append(@, Reply("perms",
                                    MissingMask(commands[x.name], x.member.permissions)))]]
       /\ UNCHANGED <<stats, commandUse>>
  ELSE /\ stats' = CountDispatch(stats, x.name)
       /\ ix' = [ix EXCEPT ![r] = [x EXCEPT !.pc = "running", !.handlerRan = TRUE]]
       /\ UNCHANGED commandUse

\* await ctx.channelSettings settles; handleRequest goes on to its next await
SettingsSettle(r) ==
  /\ ix[r].pc = "settings"
  /\ \E outcome \in {"unmuted", "muted", "rejected"} :
       LET x == [ix[r] EXCEPT !.fetched = outcome] IN
       IF outcome = "rejected"
       THEN \* no try around the await: the rejection leaves handleRequest
            /\ ix' = [ix EXCEPT ![r] = [x EXCEPT !.pc = "done", !.escaped = TRUE]]
            /\ UNCHANGED <<stats, commandUse>>
       ELSE IF x.kind = "command"
       THEN IF MuteGate(outcome = "muted", x.name)
            THEN /\ ix' = [ix EXCEPT ![r] =
                      [x EXCEPT !.pc = "done",
                                !.replies = Append(@, Reply("muted", 0))]]
                 /\ UNCHANGED <<stats, commandUse>>
            ELSE HandleCommand(r, x)
       ELSE IF outcome = "muted"
            THEN /\ ix' = [ix EXCEPT ![r] =
                      [x EXCEPT !.pc = "done",
                                !.replies = Append(@, Reply("muted", 0))]]
                 /\ UNCHANGED <<stats, commandUse>>
            ELSE /\ ix' = [ix EXCEPT ![r] = [x EXCEPT !.pc = "button"]]
                 /\ UNCHANGED <<stats, commandUse>>
  /\ UNCHANGED <<commands, limiterVars, api, permCase, otherVars>>

\* command.run resolves: the handler has replied; handleCommand tracks the use
HandlerReturns(r) ==
  /\ ix[r].pc = "running"
  /\ ix' = [ix EXCEPT ![r] =
       [@ EXCEPT !.pc = "done",
                 !.outcome = "returned",
                 !.replies = Append(@, Reply("result", 0)),
                 !.tracked = Tracked(FALSE)]]
  /\ commandUse' = [commandUse EXCEPT ![Tracked(FALSE)] = @ + 1]
  /\ UNCHANGED <<commands, stats, limiterVars, api, permCase, otherVars>>

\* command.run rejects: the catch block of handleCommand, then the tracking
HandlerRaises(r) ==
  /\ ix[r].pc = "running"
  /\ ix' = [ix EXCEPT ![r] =
       [@ EXCEPT !.pc = "done",
                 !.outcome = "raised",
                 !.errored = TRUE,
                 !.logged = TRUE,
                 !.reported = @ + 1,
                 !.replies = Append(@, Reply("failure", 0)),
                 !.tracked = Tracked(TRUE)]]
  /\ commandUse' = [commandUse EXCEPT ![Tracked(TRUE)] = @ + 1]
  /\ UNCHANGED <<commands, stats, limiterVars, api, permCase, otherVars>>

\* buttonHandler.handleButton resolves
ButtonHandled(r) ==
  /\ ix[r].pc = "button"
  /\ ix' = [ix EXCEPT ![r] =
       [@ EXCEPT !.pc = "done", !.replies = Append(@, Reply("result", 0))]]
  /\ UNCHANGED <<commands, stats, commandUse, limiterVars, api, permCase, otherVars>>

\* the response has gone out; the slot takes the next interaction
InteractionEnds(r) ==
  /\ ix[r].pc = "done"
  /\ ix' = [ix EXCEPT ![r] = IdleIx]
  /\ UNCHANGED <<commands, stats, commandUse, limiterVars, api, permCase, otherVars>>

\* ------------------------------------------------------- the minute's flush
\* the average with the divisor's increment taken before the product is read
FlushedAveragePostIncrement(s) ==
  LET avg == s.perMinuteCommandAverage IN
  Frac(avg.num * (s.minutesPassed + 1) + s.minuteCommandCount * avg.den,
       avg.den * (s.minutesPassed + 1))

\* (perMinuteCommandAverage * minutesPassed + minuteCommandCount) / ++minutesPassed:
\* the product reads minutesPassed before the increment, the division after it
FlushedAverage(s) ==
  LET avg == s.perMinuteCommandAverage IN
  Frac(avg.num * s.minutesPassed + s.minuteCommandCount * avg.den,
       avg.den * (s.minutesPassed + 1))

\* the per-command counts of the minute left as they are
FlushedMinuteCommandsKept(minuteCommands) == minuteCommands

\* for (const command in this.stats.minuteCommands)
\*   this.stats.minuteCommands[command] = 0
FlushedMinuteCommands(minuteCommands) ==
  [c \in DOMAIN minuteCommands |-> 0]

\* the callback of setInterval(..., 60 * 1000) in Client.start
Flush ==
  /\ stats.minutesPassed < MaxMinutes
  /\ stats' = [stats EXCEPT
                 !.perMinuteCommandAverage = FlushedAverage(stats),
                 !.minutesPassed = @ + 1,
                 !.minuteCommands = FlushedMinuteCommands(@),
                 !.minuteCommandCount = 0]
  /\ UNCHANGED <<commands, ix, commandUse, limiterVars, api, permCase, otherVars>>

\* ------------------------------------------------------------- public API
\* the values of the Rating choices (dare.ts) and the question types asked for
Rating == {"PG", "PG13", "R"}

QuestionType == {"TRUTH", "DARE"}

\* String.prototype.toUpperCase on the strings the model sends
toUpperCase ==
  [str \in {"", "dare", "DARE", "FOO", "PG13", "r", "R", "XX"} |->
     CASE str = "dare" -> "DARE"
       [] str = "r" -> "R"
       [] OTHER -> str]

QTypeInputs == {"dare", "FOO"}

\* req.query.rating when the query has no rating parameter (undefined)
NoRating == [absent |-> TRUE]

\* req.query.rating: undefined, one string (?rating= gives the empty one), or
\* an array of strings when the parameter is repeated
RatingInputs ==
  {NoRating, [str |-> ""], [str |-> "XX"], [arr |-> <<"PG13", "r">>]}

\* the requests sent: every rating input with a valid type, and a type that
\* is not one
ApiInputs ==
  {[qtype |-> "FOO", rating |-> NoRating]} \cup
  {[qtype |-> q, rating |-> r] : q \in QTypeInputs \ {"FOO"}, r \in RatingInputs}

\* !rating: undefined and the empty string are falsy, an array never is
Falsy(rating) == rating = NoRating \/ rating = [str |-> ""]

\* Array.isArray(rating) ? rating : [rating]
RatingArray(rating) ==
  IF "arr" \in DOMAIN rating THEN rating.arr ELSE <<rating.str>>

\* the ratings asked for, taken for the ones to leave out
disabledRatingsAsAsked(ratingArray) ==
  {a \in Rating : a \in {toUpperCase[v] : v \in {ratingArray[i] : i \in DOMAIN ratingArray}}}

\* Object.values(Rating).filter(a => !ratingArray.includes(a)), ratingArray in
\* upper case
disabledRatings(ratingArray) ==
  {a \in Rating : a \notin {toUpperCase[v] : v \in {ratingArray[i] : i \in DOMAIN ratingArray}}}

\* the requests that can be in flight on /api/ and /v1/ at once
ApiReq == {"a1", "a2"}

IdleApi ==
  [pc |-> "idle", ip |-> "none", qtype |-> "none", rating |-> NoRating,
   rateLimit |-> "none", status |-> 0, disabled |-> {}]

\* handleAPI up to its first await, for an admitted request
HandleAPI(x) ==
  IF toUpperCase[x.qtype] \notin QuestionType
  THEN [x EXCEPT !.pc = "responded", !.status = 400]
  ELSE IF Falsy(x.rating)
  THEN [x EXCEPT !.pc = "query", !.disabled = {"R"}]
  ELSE IF \E i \in DOMAIN RatingArray(x.rating) :
            toUpperCase[RatingArray(x.rating)[i]] \notin Rating
  THEN [x EXCEPT !.pc = "responded", !.status = 400]
  ELSE [x EXCEPT !.pc = "query",
                 !.disabled = disabledRatings(RatingArray(x.rating))]

\* GET /api/:questionType or /v1/:questionType: APIRateLimit, then handleAPI
ApiArrive(a) ==
  /\ api[a].pc = "idle"
  /\ \E path \in {"/api/", "/v1/"}, ip \in IPs, in \in ApiInputs,
        rl \in {"none", "admitted", "rejected"} :
       /\ Admission(path, ip, rl)
       /\ api' = [api EXCEPT ![a] =
            IF rl = "rejected"
            THEN \* handler: res.status(429).send(...)
                 [IdleApi EXCEPT !.pc = "responded", !.ip = ip,
                                 !.rateLimit = rl, !.status = 429]
            ELSE HandleAPI([IdleApi EXCEPT !.ip = ip, !.qtype = in.qtype,
                                           !.rating = in.rating,
                                           !.rateLimit = rl])]
  /\ UNCHANGED <<routerVars, permCase, otherVars>>

\* getRandomQuestion resolves: res.send(question)
ApiQuerySettles(a) ==
  /\ api[a].pc = "query"
  /\ api' = [api EXCEPT ![a] = [@ EXCEPT !.pc = "responded", !.status = 200]]
  /\ UNCHANGED <<routerVars, limiterVars, permCase, otherVars>>

\* getRandomQuestion rejects: handleAPI sends nothing
ApiQueryRejects(a) ==
  /\ api[a].pc = "query"
  /\ api' = [api EXCEPT ![a] = [@ EXCEPT !.pc = "aborted"]]
  /\ UNCHANGED <<routerVars, limiterVars, permCase, otherVars>>

\* skipFailedRequests: false
GivesBackNever(x) == FALSE

\* skipFailedRequests: true -- whether the finished request gives its slot back:
\* its response has a status of 400 or above, or it closes without a response
GivesBack(x) ==
  \/ x.pc = "responded" /\ x.status >= 400
  \/ x.pc = "aborted"

\* the response finishes, or the connection closes without one
ApiFinish(a) ==
  /\ api[a].pc \in {"responded", "aborted"}
  /\ LET ip == api[a].ip IN
     IF GivesBack(api[a]) /\ api[a].rateLimit # "none" /\ hits[ip] > 0
     THEN /\ hits' = [hits EXCEPT ![ip] = @ - 1]
          /\ windowGivenBack' = [windowGivenBack EXCEPT ![ip] = @ + 1]
          /\ UNCHANGED windowChecks
     ELSE UNCHANGED limiterVars
  /\ api' = [api EXCEPT ![a] = IdleApi]
  /\ UNCHANGED <<routerVars, permCase, otherVars>>

\* the store's timer, every windowMs: all counts start again
WindowReset ==
  /\ \E i \in IPs : windowChecks[i] > 0
  /\ hits' = [i \in IPs |-> 0]
  /\ windowChecks' = [i \in IPs |-> 0]
  /\ windowGivenBack' = [i \in IPs |-> 0]
  /\ UNCHANGED <<routerVars, api, permCase, otherVars>>

\* ------------------------------------------- the permission functions alone
NoPermCase == [phase |-> "none"]

\* perms of a command: any list of up to two flags
PermLists ==
  {<<>>} \cup {<<PermissionFlagsBits[b]>> : b \in DOMAIN PermissionFlagsBits}
         \cup {<<PermissionFlagsBits[b], PermissionFlagsBits[c]>> :
                 b \in DOMAIN PermissionFlagsBits, c \in DOMAIN PermissionFlagsBits}

\* member.permissions: any string of 1..MaxDigits decimal digits
DigitStrings == UNION {[1..n -> 0..9] : n \in 1..MaxDigits}

PermInputs ==
  [phase : {"input"}, perms : PermLists,
   member : {NoMember} \cup {[permissions |-> str] : str \in DigitStrings}]

\* checkPerms(command, ctx) is called
EvalCheckPerms ==
  /\ permCase.phase = "input"
  /\ permCase' = [phase |-> "checkPerms", perms |-> permCase.perms,
                  member |-> permCase.member,
                  allowed |-> checkPerms(permCase.perms, permCase.member),
                  missingNames |->
                    IF permCase.member = NoMember THEN <<>>
                    ELSE missingNames(permCase.perms,
                                      permCase.member.permissions),
                  reply |->
                    IF checkPerms(permCase.perms, permCase.member) THEN <<>>
                    ELSE MissingLabels(permCase.perms,
                                       permCase.member.permissions)]
  /\ UNCHANGED <<routerVars, limiterVars, api, otherVars>>

\* hasPermission(permission, ctx.member?.permissions) is called
EvalHasPermission ==
  /\ permCase.phase = "input"
  /\ permCase' = [phase |-> "hasPermission", perms |-> permCase.perms,
                  member |-> permCase.member,
                  allowed |-> hasPermission(RequiredMask(permCase.perms),
                                IF permCase.member = NoMember THEN Undefined
                                ELSE permCase.member.permissions)]
  /\ UNCHANGED <<routerVars, limiterVars, api, otherVars>>

\* ------------------------------------------------- paranoia questions, answer
\* a value that is not there (null)
Null == "null"

\* no row: what getNextParanoia gives when the recipient has none
NoEntry == [id |-> 0, dmMessageId |-> Null]

\* the identifier of a message the platform accepted
MessageId == "m"

\* Database.getNextParanoia(userId): the oldest stored question of the recipient
getNextParanoia(store) == IF store = <<>> THEN NoEntry ELSE store[1]

\* Database.removeParanoiaQuestion(id)
removeParanoiaQuestion(store, id) == SelectSeq(store, LAMBDA e : e.id # id)

\* Database.setParanoiaMessageId(id, messageId)
setParanoiaMessageId(store, id, messageId) ==
  [i \in DOMAIN store |->
     IF store[i].id = id THEN [store[i] EXCEPT !.dmMessageId = messageId]
     ELSE store[i]]

\* Database.addParanoiaQuestion: a new row behind the stored ones, not delivered
addParanoiaQuestion(store, id) == Append(store, [id |-> id, dmMessageId |-> Null])

StoredIds(store) == {store[i].id : i \in DOMAIN store}

\* the runs of the answer command that can be in flight at once
AnswerReq == {"f1", "f2"}

IdleAnswer ==
  [pc |-> "idle", data |-> NoEntry, next |-> NoEntry, replies |-> <<>>,
   log |-> <<>>, raised |-> FALSE]

\* the awaits of answer.run with the fetch of the next question ahead of the
\* removal
AnswerStepsFetchFirst ==
  <<"head", "relay", "edit", "next", "remove", "guild", "notify", "attach">>

\* the awaits of answer.run in the order of the source: getNextParanoia,
\* sendMessage, editMessage, removeParanoiaQuestion, getNextParanoia,
\* fetchGuild, sendMessage, setParanoiaMessageId
AnswerSteps ==
  <<"head", "relay", "edit", "remove", "next", "guild", "notify", "attach">>

StepAfter(step) ==
  LET i == CHOOSE j \in DOMAIN AnswerSteps : AnswerSteps[j] = step
  IN IF i = Len(AnswerSteps) THEN "done" ELSE AnswerSteps[i + 1]

\* a head that is always taken to be there
HeadMissingNever(data) == FALSE

\* if (!paranoiaData) return ctx.reply(...)
HeadMissing(data) == data = NoEntry

\* a relay whose failure is passed over
RelayEndsRunNever(message) == FALSE

\* if (!message) return ctx.reply(...)
RelayEndsRun(message) == message = Null

\* no row is removed
RemovedIdNone(data) == 0

\* removeParanoiaQuestion(paranoiaData.id)
RemovedId(data) == data.id

\* the newest stored question is taken for the next one
NextQuestionNewest(store) ==
  IF store = <<>> THEN NoEntry ELSE store[Len(store)]

\* const nextQuestion = await ctx.client.database.getNextParanoia(ctx.user.id)
NextQuestion(store) == getNextParanoia(store)

\* the message identifier goes to the row behind the next question
AttachedIdBehind(next) == next.id + 1

\* setParanoiaMessageId(nextQuestion.id, nextMessage.id)
AttachedId(next) == next.id

LogEntry(op, id) == [op |-> op, id |-> id]

\* the catch of handleCommand around command.run: the generic failure reply
Raised(x) ==
  [x EXCEPT !.pc = "done", !.raised = TRUE, !.replies = Append(@, "failure")]

\* what a call of sendMessage or editMessage can come to: the message, an
\* empty body, or a rejection
SendOutcomes == {MessageId, Null, "rejected"}

\* the producing command stores a question for the recipient; its first
\* notification is sent only when the recipient had none stored
Enqueue ==
  /\ created < MaxEntries
  /\ created' = created + 1
  /\ paranoia' = addParanoiaQuestion(paranoia, created + 1)
  /\ delivering' = IF paranoia = <<>> THEN delivering \cup {created + 1}
                   ELSE delivering
  /\ UNCHANGED <<routerVars, limiterVars, api, permCase, answer, metricsReq>>

\* the producer's notification is sent: its message identifier is attached
ProducerDelivers ==
  /\ \E id \in delivering :
       /\ paranoia' = setParanoiaMessageId(paranoia, id, MessageId)
       /\ delivering' = delivering \ {id}
  /\ UNCHANGED <<routerVars, limiterVars, api, permCase, created, answer,
                 metricsReq>>

\* the producer's notification is not sent
ProducerSendFails ==
  /\ \E id \in delivering : delivering' = delivering \ {id}
  /\ UNCHANGED <<routerVars, limiterVars, api, permCase, paranoia, created,
                 answer, metricsReq>>

AnswerFrame == UNCHANGED <<routerVars, limiterVars, api, permCase, created,
                           delivering, metricsReq>>

\* /answer arrives: in a guild it is turned away, else the head is asked for
AnswerStart(f) ==
  /\ answer[f].pc = "idle"
  /\ \E inGuild \in BOOLEAN :
       answer' = [answer EXCEPT ![f] =
         IF inGuild THEN [@ EXCEPT !.pc = "done", !.replies = <<"dmOnly">>]
         ELSE [@ EXCEPT !.pc = AnswerSteps[1]]]
  /\ UNCHANGED paranoia
  /\ AnswerFrame

\* getNextParanoia answers
AnswerHead(f) ==
  /\ answer[f].pc = "head"
  /\ LET data == getNextParanoia(paranoia) IN
       answer' = [answer EXCEPT ![f] =
         IF HeadMissing(data)
         THEN [@ EXCEPT !.pc = "done", !.replies = Append(@, "noActive")]
         ELSE [@ EXCEPT !.pc = StepAfter("head"), !.data = data]]
  /\ UNCHANGED paranoia
  /\ AnswerFrame

\* sendMessage of the answer to the channel the question came from settles
AnswerRelay(f) ==
  /\ answer[f].pc = "relay"
  /\ \E message \in SendOutcomes :
       answer' = [answer EXCEPT ![f] =
         IF message = "rejected" THEN Raised(@)
         ELSE IF RelayEndsRun(message)
         THEN [@ EXCEPT !.pc = "done", !.replies = Append(@, "sendFailed")]
         ELSE [@ EXCEPT !.pc = StepAfter("relay"),
                        !.log = IF message = Null THEN @
                                ELSE Append(@, LogEntry("relay", answer[f].data.id))]]
  /\ UNCHANGED paranoia
  /\ AnswerFrame

\* editMessage of the notification settles; a notification that was never
\* sent cannot be edited
AnswerEdit(f) ==
  /\ answer[f].pc = "edit"
  /\ \E editedMessage \in SendOutcomes :
       /\ editedMessage = MessageId => answer[f].data.dmMessageId # Null
       /\ answer' = [answer EXCEPT ![f] =
            IF editedMessage = "rejected" THEN Raised(@)
            ELSE [@ EXCEPT !.pc = StepAfter("edit"),
                           !.log = IF editedMessage = Null THEN @
                                   ELSE Append(@, LogEntry("edit", answer[f].data.id))]]
  /\ UNCHANGED paranoia
  /\ AnswerFrame

\* removeParanoiaQuestion settles, then ctx.reply("Answer sent!"); for a row
\* that is gone the store does nothing or rejects
AnswerRemove(f) ==
  /\ answer[f].pc = "remove"
  /\ LET id == RemovedId(answer[f].data) IN
       \/ /\ paranoia' = removeParanoiaQuestion(paranoia, id)
          /\ answer' = [answer EXCEPT ![f] =
               [@ EXCEPT !.pc = StepAfter("remove"),
                         !.replies = Append(@, "answerSent"),
                         !.log = Append(@, LogEntry("remove", id))]]
       \/ /\ id \notin StoredIds(paranoia)
          /\ UNCHANGED paranoia
          /\ answer' = [answer EXCEPT ![f] = Raised(@)]
  /\ AnswerFrame

\* the second getNextParanoia answers
AnswerNext(f) ==
  /\ answer[f].pc = "next"
  /\ LET nextQuestion == NextQuestion(paranoia) IN
       answer' = [answer EXCEPT ![f] =
         IF nextQuestion = NoEntry THEN [@ EXCEPT !.pc = "done"]
         ELSE [@ EXCEPT !.pc = StepAfter("next"), !.next = nextQuestion]]
  /\ UNCHANGED paranoia
  /\ AnswerFrame

\* fetchGuild settles; without a guild the read of guild.name raises
AnswerGuild(f) ==
  /\ answer[f].pc = "guild"
  /\ \E guild \in {"guild", Null} :
       answer' = [answer EXCEPT ![f] =
         IF guild = Null THEN Raised(@)
         ELSE [@ EXCEPT !.pc = StepAfter("guild")]]
  /\ UNCHANGED paranoia
  /\ AnswerFrame

\* sendMessage of the next question to the recipient settles
AnswerNotify(f) ==
  /\ answer[f].pc = "notify"
  /\ \E nextMessage \in SendOutcomes :
       answer' = [answer EXCEPT ![f] =
         IF nextMessage = "rejected" THEN Raised(@)
         ELSE IF nextMessage = Null THEN [@ EXCEPT !.pc = "done"]
         ELSE [@ EXCEPT !.pc = StepAfter("notify"),
                        !.log = Append(@, LogEntry("notify", answer[f].next.id))]]
  /\ UNCHANGED paranoia
  /\ AnswerFrame

\* setParanoiaMessageId settles; for a row that is gone the store does nothing
\* or rejects
AnswerAttach(f) ==
  /\ answer[f].pc = "attach"
  /\ LET id == AttachedId(answer[f].next) IN
       \/ /\ paranoia' = setParanoiaMessageId(paranoia, id, MessageId)
          /\ answer' = [answer EXCEPT ![f] =
               [@ EXCEPT !.pc = StepAfter("attach"),
                         !.log = Append(@, LogEntry("attach", id))]]
       \/ /\ id \notin StoredIds(paranoia)
          /\ UNCHANGED paranoia
          /\ answer' = [answer EXCEPT ![f] = Raised(@)]
  /\ AnswerFrame

\* the run is over; the slot takes the next /answer
AnswerEnds(f) ==
  /\ answer[f].pc = "done"
  /\ answer' = [answer EXCEPT ![f] = IdleAnswer]
  /\ UNCHANGED paranoia
  /\ AnswerFrame

\* ------------------------------------------------------------ GET /metrics
NoMetricsReq == [phase |-> "none"]

\* a value that is not set (undefined): a header that was not sent, an
\* environment variable that is not defined
NotSet == [undefined |-> TRUE]

\* a string, as the sequence of its pieces; "Bearer " is one piece and no
\* other piece holds a part of it
Str(pieces) == [str |-> pieces]

Pieces == {"Bearer ", "s", "t"}

\* req.headers.authorization: not sent, or any string of up to MaxPieces pieces
AuthorizationInputs ==
  {NotSet} \cup {Str(q) : q \in UNION {[1..n -> Pieces] : n \in 0..MaxPieces}}

\* process.env.PROMETHEUS_AUTH: not defined, empty, or a secret
SecretInputs == {NotSet, Str(<<>>), Str(<<"s">>), Str(<<"t">>)}

\* String.prototype.replace('Bearer ', ''): the first occurrence is taken out
Replace(pieces) ==
  IF \E i \in DOMAIN pieces : pieces[i] = "Bearer "
  THEN LET first == CHOOSE i \in DOMAIN pieces :
                      /\ pieces[i] = "Bearer "
                      /\ \A j \in 1..(i - 1) : pieces[j] # "Bearer "
       IN SubSeq(pieces, 1, first - 1) \o SubSeq(pieces, first + 1, Len(pieces))
  ELSE pieces

\* req.headers.authorization?.replace('Bearer ', '')
Credential(authorization) ==
  IF authorization = NotSet THEN NotSet ELSE Str(Replace(authorization.str))

\* the condition of the 401: credential !== process.env.PROMETHEUS_AUTH
Unauthorized(authorization, secret) == Credential(authorization) # secret

MetricsInputs ==
  [phase : {"input"}, authorization : AuthorizationInputs, secret : SecretInputs]

\* GET /metrics up to its await: 401, or register.metrics() is asked
MetricsArrive ==
  /\ metricsReq.phase = "input"
  /\ metricsReq' =
       IF Unauthorized(metricsReq.authorization, metricsReq.secret)
       THEN [metricsReq EXCEPT !.phase = "responded"] @@ [status |-> 401, body |-> "Unauthorized"]
       ELSE [metricsReq EXCEPT !.phase = "collect"]
  /\ UNCHANGED <<routerVars, limiterVars, api, permCase, paranoiaVars>>

\* register.metrics() resolves: res.send(metrics)
MetricsCollected ==
  /\ metricsReq.phase = "collect"
  /\ metricsReq' =
       [metricsReq EXCEPT !.phase = "responded"] @@ [status |-> 200, body |-> "metrics"]
  /\ UNCHANGED <<routerVars, limiterVars, api, permCase, paranoiaVars>>

\* nothing stored, nothing in flight
OthersAtRest ==
  /\ paranoia = <<>>
  /\ created = 0
  /\ delivering = {}
  /\ answer = [f \in AnswerReq |-> IdleAnswer]
  /\ metricsReq = NoMetricsReq

Init ==
  /\ commands \in {[c \in Registered |-> IF c = "settings" THEN p ELSE <<>>] :
                     p \in LoadedPermLists}
  /\ ix = [r \in Req |-> IdleIx]
  /\ stats = InitStats
  /\ commandUse = [success |-> 0, failure |-> 0]
  /\ hits = [i \in IPs |-> 0]
  /\ windowChecks = [i \in IPs |-> 0]
  /\ windowGivenBack = [i \in IPs |-> 0]
  /\ api = [a \in ApiReq |-> IdleApi]
  /\ permCase = NoPermCase
  /\ OthersAtRest

Next ==
  \E r \in Req :
    \/ ReceiveInteraction(r)
    \/ SettingsSettle(r)
    \/ HandlerReturns(r)
    \/ HandlerRaises(r)
    \/ ButtonHandled(r)
    \/ InteractionEnds(r)

Spec == Init /\ [][Next]_vars

ApiInit == Init /\ commands["settings"] = <<>>

ApiNext ==
  \/ \E a \in ApiReq :
       \/ ApiArrive(a)
       \/ ApiQuerySettles(a)
       \/ ApiQueryRejects(a)
       \/ ApiFinish(a)
  \/ WindowReset

ApiSpec == ApiInit /\ [][ApiNext]_vars

PermInit ==
  /\ commands = [c \in Registered |-> <<>>]
  /\ ix = [r \in Req |-> IdleIx]
  /\ stats = InitStats
  /\ commandUse = [success |-> 0, failure |-> 0]
  /\ hits = [i \in IPs |-> 0]
  /\ windowChecks = [i \in IPs |-> 0]
  /\ windowGivenBack = [i \in IPs |-> 0]
  /\ api = [a \in ApiReq |-> IdleApi]
  /\ permCase \in PermInputs
  /\ OthersAtRest

PermNext == EvalCheckPerms \/ EvalHasPermission

PermSpec == PermInit /\ [][PermNext]_vars

MetricsInit ==
  /\ commands = [c \in Registered |-> <<>>]
  /\ ix = [r \in Req |-> IdleIx]
  /\ stats = InitStats
  /\ commandUse = [success |-> 0, failure |-> 0]
  /\ hits = [i \in IPs |-> 0]
  /\ windowChecks = [i \in IPs |-> 0]
  /\ windowGivenBack = [i \in IPs |-> 0]
  /\ api = [a \in ApiReq |-> IdleApi]
  /\ permCase = NoPermCase
  /\ paranoia = <<>>
  /\ created = 0
  /\ delivering = {}
  /\ answer = [f \in AnswerReq |-> IdleAnswer]
  /\ metricsReq \in MetricsInputs

MetricsNext == MetricsArrive \/ MetricsCollected

MetricsSpec == MetricsInit /\ [][MetricsNext]_vars

\* one interaction at a time on /interactions, and the minute's flush
StatsNext ==
  \/ ReceiveInteraction("r1")
  \/ SettingsSettle("r1")
  \/ HandlerReturns("r1")
  \/ HandlerRaises("r1")
  \/ ButtonHandled("r1")
  \/ InteractionEnds("r1")
  \/ Flush

StatsSpec == Init /\ [][StatsNext]_vars

ParanoiaNext ==
  \/ Enqueue
  \/ ProducerDelivers
  \/ ProducerSendFails
  \/ \E f \in AnswerReq :
       \/ AnswerStart(f)
       \/ AnswerHead(f)
       \/ AnswerRelay(f)
       \/ AnswerEdit(f)
       \/ AnswerRemove(f)
       \/ AnswerNext(f)
       \/ AnswerGuild(f)
       \/ AnswerNotify(f)
       \/ AnswerAttach(f)
       \/ AnswerEnds(f)

ParanoiaSpec == ApiInit /\ [][ParanoiaNext]_vars

\* ================================================================ properties
\* the capability bits a perms list asks for, read off the list itself
RequiredBits(perms) ==
  {b \in 0..(NumBits - 1) : \E i \in DOMAIN perms : perms[i] = 2 ^ b}

\* the value of a string of decimal digits, by place value
PlaceValue(str) ==
  LET RECURSIVE Sum(_)
      Sum(i) == IF i > Len(str) THEN 0
                ELSE str[i] * 10 ^ (Len(str) - i) + Sum(i + 1)
  IN Sum(1)

\* the capability bits a member holds
GrantedBits(member) ==
  {b \in 0..(NumBits - 1) : (PlaceValue(member.permissions) \div 2 ^ b) % 2 = 1}

\* the member is there and lacks a bit the perms list asks for
LacksBits(perms, member) ==
  member # NoMember /\ RequiredBits(perms) \ GrantedBits(member) # {}

LackedMask(perms, member) ==
  LET RECURSIVE SumBits(_)
      SumBits(S) == IF S = {} THEN 0
                    ELSE LET b == CHOOSE c \in S : TRUE
                         IN 2 ^ b + SumBits(S \ {b})
  IN SumBits(RequiredBits(perms) \ GrantedBits(member))

CountKind(replies, kind) ==
  Cardinality({i \in DOMAIN replies : replies[i].kind = kind})

\* the three counters of one command, each one higher, nothing else touched
CountedOnce(name) ==
  /\ stats'.minuteCommandCount = stats.minuteCommandCount + 1
  /\ stats'.commands = [stats.commands EXCEPT ![name] = @ + 1]
  /\ stats'.minuteCommands = [stats.minuteCommands EXCEPT ![name] = @ + 1]

\* the interaction r leaves the await of its channel settings in this step,
\* the fetch having answered
SettingsAnswered(r) ==
  /\ ix[r].pc = "settings"
  /\ ix'[r].pc # "settings"
  /\ ix'[r].fetched \in {"muted", "unmuted"}

\* a command interaction that the mute gate lets through
PastMuteGate(r) ==
  /\ ix[r].kind = "command"
  /\ ~(ix'[r].fetched = "muted" /\ ix[r].name # "settings")

\* C1: when the handler of a dispatched command raises, the router sends
\* exactly one generic failure reply, reports exactly one error to the
\* tracker, tracks the use as a failure (the success tally stays), and the
\* failure does not leave the router.
C1_HandlerFailureContained ==
  [][\A r \in Req :
       (ix[r].pc = "running" /\ ix'[r].outcome = "raised") =>
         /\ ix'[r].pc = "done"
         /\ CountKind(ix'[r].replies, "failure") = 1
         /\ ix'[r].replies = Append(ix[r].replies, Reply("failure", 0))
         /\ ix[r].reported = 0 /\ ix'[r].reported = 1
         /\ ix'[r].tracked = "failure"
         /\ commandUse'.failure = commandUse.failure + 1
         /\ commandUse'.success = commandUse.success
         /\ ~ix'[r].escaped]_vars

C1_Witness ==
  \E r \in Req : ix[r].outcome = "raised" /\ ix[r].pc = "done"
                 /\ commandUse.failure > 0

\* C2: no fault leaves handleRequest: every run of the router ends with a
\* reply sent or with a logged warning, never with an exception going out.
C2_NoFaultEscapes ==
  \A r \in Req :
    (ix[r].pc = "done" /\ ix[r].kind \in {"command", "button"}) =>
      /\ ~ix[r].escaped
      /\ (ix[r].replies # <<>> \/ ix[r].logged)

\* C3: a command interaction that passes the mute and permission checks
\* raises the total-this-minute counter and its own this-minute and lifetime
\* counters by one each, in the step that starts the handler, and the end of
\* the handler (return or raise) leaves the counters as they are.
C3_CountedBeforeHandler ==
  [][\A r \in Req :
       /\ (/\ SettingsAnswered(r)
           /\ PastMuteGate(r)
           /\ ix[r].name \in Registered
           /\ ~LacksBits(commands[ix[r].name], ix[r].member))
          => (CountedOnce(ix[r].name) /\ ix'[r].pc = "running" /\ ix'[r].handlerRan)
       /\ (~ix[r].handlerRan /\ ix'[r].handlerRan) => CountedOnce(ix'[r].name)
       /\ (ix[r].pc = "running" /\ ix'[r].outcome \in {"returned", "raised"})
          => stats' = stats]_vars

C3_Witness ==
  \E r \in Req :
    /\ ix[r].outcome = "raised"
    /\ stats.commands[ix[r].name] > 0
    /\ stats.minuteCommands[ix[r].name] > 0
    /\ stats.minuteCommandCount > 0

\* C4: in a muted channel a command that is not on the passthrough list gets
\* the mute message as its only reply, its handler is never started and no
\* statistics counter changes.
C4_MutedShortCircuit ==
  [][\A r \in Req :
       (/\ ix'[r].kind = "command"
        /\ ix'[r].fetched = "muted"
        /\ ix'[r].name \notin {"settings"}) =>
         /\ ix'[r].pc = "done"
         /\ ix'[r].replies = <<Reply("muted", 0)>>
         /\ ~ix'[r].handlerRan
         /\ ix[r].pc = "settings" => stats' = stats /\ commandUse' = commandUse]_vars

C4_Witness ==
  \E r \in Req :
    /\ ix[r].kind = "command" /\ ix[r].fetched = "muted" /\ ix[r].name = "dare"
    /\ ix[r].replies = <<Reply("muted", 0)>>

\* C5: when the caller's permission bitmask is there and lacks a bit the
\* command requires, the handler is never started, no statistics counter and
\* no success/failure tally changes, and an interaction that reaches the
\* permission check gets the reply naming the missing bits.
C5_MissingPermissionAborts ==
  [][\A r \in Req :
       (/\ ix'[r].kind = "command"
        /\ ix'[r].name \in Registered
        /\ LacksBits(commands[ix'[r].name], ix'[r].member)) =>
         /\ ~ix'[r].handlerRan
         /\ ix'[r].pc # "running"
         /\ (SettingsAnswered(r) /\ PastMuteGate(r)) =>
              /\ ix'[r].pc = "done"
              /\ ix'[r].replies =
                   <<Reply("perms", LackedMask(commands[ix[r].name], ix[r].member))>>
              /\ stats' = stats
              /\ commandUse' = commandUse]_vars

C5_Witness ==
  \E r \in Req :
    /\ ix[r].pc = "done"
    /\ Len(ix[r].replies) = 1
    /\ ix[r].replies[1].kind = "perms"
    /\ ix[r].replies[1].missing = 2 ^ NumBits - 1

\* C6: the settings command in a muted channel is not stopped by the mute
\* gate: it goes on to the permission check and, if permitted, its handler is
\* started and its counters are raised as in an unmuted channel.
C6_PassthroughWhileMuted ==
  [][\A r \in Req :
       (/\ SettingsAnswered(r)
        /\ ix[r].kind = "command"
        /\ ix[r].name = "settings"
        /\ ix'[r].fetched = "muted") =>
         IF LacksBits(commands["settings"], ix[r].member)
         THEN /\ ix'[r].replies # <<>>
              /\ ix'[r].replies[1].kind = "perms"
         ELSE /\ ix'[r].pc = "running"
              /\ ix'[r].handlerRan
              /\ CountedOnce("settings")]_vars

C6_Witness ==
  \E r \in Req :
    /\ ix[r].name = "settings" /\ ix[r].fetched = "muted"
    /\ ix[r].handlerRan /\ ix[r].outcome = "returned"
    /\ stats.commands["settings"] > 0

\* C7 as stated: every interaction taken in on the webhook surface has gone
\* through the admission check of the rate limiter before any other work.
C7_WebhookAdmissionFirst ==
  \A r \in Req : ix[r].pc # "idle" => ix[r].rateLimit \in {"admitted", "rejected"}

\* C7, amended: interactions on the webhook surface do not go through the
\* rate limiter, which is mounted on /api/ and /v1/ only: none is counted or
\* rejected by it, and the mute check, the permission check, the statistics
\* and the handler run without an admission check before them.
C7_WebhookNotRateLimited ==
  /\ \A r \in Req : ix[r].rateLimit = "none"
  /\ \A i \in IPs : hits[i] = 0 /\ windowChecks[i] = 0

C7_Witness ==
  /\ \A r \in Req : ix[r].handlerRan /\ ix[r].rateLimit = "none"
  /\ stats.minuteCommandCount = MaxDispatch

\* a request of address i is taken in by this step, as request a
Checked(a, i) == api[a].pc = "idle" /\ api'[a].pc # "idle" /\ api'[a].ip = i

\* the request a leaves in this step
Finished(a) == api[a].pc \in {"responded", "aborted"} /\ api'[a].pc = "idle"

\* the window starts again in this step
WindowRestarts == \A i \in IPs : windowChecks'[i] = 0

\* C8 as stated: for one address, the first 5 admission checks of a window
\* are admitted and the 6th is rejected; the first check of a new window is
\* admitted and counts as 1; requests of other addresses leave the count alone.
C8_FifthAdmittedSixthRejected ==
  [][\A a \in ApiReq, i \in IPs :
       Checked(a, i) =>
         /\ windowChecks[i] < 5 => api'[a].rateLimit = "admitted"
         /\ windowChecks[i] = 5 => api'[a].rateLimit = "rejected"
         /\ windowChecks[i] = 0 => hits'[i] = 1
         /\ \A j \in IPs \ {i} : hits'[j] = hits[j]]_vars

\* C8, amended: for one address, the first 5 admission checks of a window are
\* admitted, and a later check is admitted exactly when fewer than 5 of the
\* earlier checks of the window still hold their slot, so the 6th is rejected
\* unless an earlier request has given its slot back; the first check of a
\* new window is admitted and counts as 1; requests of other addresses leave
\* the count alone.
C8_SixthRejectedUnlessGivenBack ==
  [][\A a \in ApiReq, i \in IPs :
       Checked(a, i) =>
         /\ windowChecks[i] < 5 => api'[a].rateLimit = "admitted"
         /\ api'[a].rateLimit = "admitted"
              <=> windowChecks[i] - windowGivenBack[i] < 5
         /\ (windowChecks[i] = 5 /\ windowGivenBack[i] = 0)
              => api'[a].rateLimit = "rejected"
         /\ windowChecks[i] = 0 => hits'[i] = 1
         /\ \A j \in IPs \ {i} : hits'[j] = hits[j]]_vars

C8_Witness ==
  \E a \in ApiReq :
    /\ api[a].rateLimit = "rejected"
    /\ windowChecks[api[a].ip] = 6
    /\ windowGivenBack[api[a].ip] = 0
    /\ \E j \in IPs \ {api[a].ip} : windowChecks[j] > 0

\* C9 as stated: every admission check raises the count of its address by
\* one and the count never goes down inside a window, so a rejected or failed
\* request keeps its slot.
C9_NeverDecrementedInWindow ==
  [][/\ \A a \in ApiReq, i \in IPs : Checked(a, i) => hits'[i] = hits[i] + 1
     /\ \A i \in IPs : hits'[i] < hits[i] => WindowRestarts]_vars

\* C9, amended: every admission check raises the count of its address by one;
\* a request that ends in a failure response (status 400 or above, the
\* limiter's own 429 included) or without a response gives its slot back, the
\* count going down by one (never below zero) when it leaves; a request that
\* ends in success keeps its slot; inside a window the count goes down in no
\* other way.
C9_FailedRequestGivesSlotBack ==
  [][/\ \A a \in ApiReq, i \in IPs : Checked(a, i) => hits'[i] = hits[i] + 1
     /\ \A a \in ApiReq :
          Finished(a) =>
            LET i == api[a].ip IN
            IF api[a].pc = "aborted" \/ api[a].status >= 400
            THEN hits'[i] = IF hits[i] > 0 THEN hits[i] - 1 ELSE 0
            ELSE hits' = hits
     /\ \A i \in IPs :
          (hits'[i] < hits[i] /\ ~WindowRestarts) =>
            /\ hits'[i] = hits[i] - 1
            /\ \E a \in ApiReq :
                 /\ Finished(a) /\ api[a].ip = i
                 /\ (api[a].pc = "aborted" \/ api[a].status >= 400)]_vars

C9_Witness ==
  \E i \in IPs :
    /\ windowChecks[i] = 6
    /\ windowGivenBack[i] > 0
    /\ hits[i] = windowChecks[i] - windowGivenBack[i]
    /\ \E a \in ApiReq : api[a].ip = i /\ api[a].status = 429

\* C10: the permission decision is "allowed" exactly when every required bit
\* is among the granted bits, that is (required & ~granted) = 0; with no
\* granted bitmask (no member) it is always "allowed".
C10_AllowedIffNothingMissing ==
  permCase.phase \in {"checkPerms", "hasPermission"} =>
    /\ permCase.member = NoMember => permCase.allowed
    /\ permCase.member # NoMember =>
         (permCase.allowed <=>
            RequiredBits(permCase.perms) \subseteq GrantedBits(permCase.member))

C10_Witness ==
  /\ permCase.phase = "checkPerms"
  /\ Len(permCase.perms) = 2
  /\ permCase.member # NoMember
  /\ Cardinality(RequiredBits(permCase.perms) \ GrantedBits(permCase.member)) = 1
  /\ ~permCase.allowed

\* the bit a key of the table names, by its place in the table
KeyBit(key) == (CHOOSE i \in DOMAIN PermissionKeys : PermissionKeys[i] = key) - 1

SeqHas(q, v) == \E i \in DOMAIN q : q[i] = v

\* the run f leaves the await named step in this transition
Leaves(f, step) == answer[f].pc = step /\ answer'[f].pc # step

\* the stored question that was created first
Oldest(store) ==
  CHOOSE e \in {store[i] : i \in DOMAIN store} :
    \A i \in DOMAIN store : e.id <= store[i].id

\* the run has an entry to answer and is past the relay without a relayed
\* message
RelayFailed(x) ==
  /\ x.data # NoEntry
  /\ x.pc \notin {"idle", "head", "relay"}
  /\ ~SeqHas(x.log, LogEntry("relay", x.data.id))

\* the place of an effect in the order relay, edit, removal, notification,
\* attachment
EffectRank(op) ==
  CASE op = "relay" -> 1 [] op = "edit" -> 2 [] op = "remove" -> 3
    [] op = "notify" -> 4 [] op = "attach" -> 5

\* C12: the queue of the recipient is first in, first out: the head a run of
\* answer is given is the oldest question that is stored (none when nothing
\* is stored, and the run says so); a question a run has acknowledged as
\* answered is stored no longer, and a question that left the store never
\* comes back, so no later head is that question.
C12_FifoHeads ==
  [][/\ \A f \in AnswerReq :
          Leaves(f, "head") =>
            IF paranoia = <<>>
            THEN answer'[f].data = NoEntry /\ answer'[f].replies = <<"noActive">>
            ELSE answer'[f].data = Oldest(paranoia)
     /\ \A f \in AnswerReq :
          SeqHas(answer'[f].replies, "answerSent") =>
            answer'[f].data.id \notin StoredIds(paranoia')
     /\ \A id \in StoredIds(paranoia') \ StoredIds(paranoia) : id > created
    ]_vars

\* three questions were stored and answered one after the other; the third
\* answer was for the third question and the store is empty
C12_Witness ==
  /\ created = 3
  /\ paranoia = <<>>
  /\ answer["f1"].data.id = 3
  /\ SeqHas(answer["f1"].replies, "answerSent")
  /\ answer["f2"].pc = "idle"

\* C13: storing a new question while the head is delivered leaves the head
\* as it is and delivers nothing: the new question is stored last, without
\* a message identifier, and no notification for it is under way; a message
\* identifier is attached to a question only once every older question has
\* left the store.
C13_EnqueueKeepsHead ==
  [][/\ (created' = created + 1 /\ paranoia # <<>>
           /\ paranoia[1].dmMessageId # Null) =>
          /\ paranoia'[1] = paranoia[1]
          /\ Len(paranoia') = Len(paranoia) + 1
          /\ paranoia'[Len(paranoia')] = [id |-> created + 1, dmMessageId |-> Null]
          /\ (created + 1) \notin delivering'
     /\ \A i \in DOMAIN paranoia' :
          (/\ paranoia'[i].dmMessageId # Null
           /\ ~SeqHas(paranoia, paranoia'[i])) => i = 1
    ]_vars

\* a question was stored behind a delivered head and is not delivered
C13_Witness ==
  /\ Len(paranoia) >= 2
  /\ paranoia[1].dmMessageId # Null
  /\ paranoia[Len(paranoia)].dmMessageId = Null
  /\ delivering = {}

\* C14: at any time at most one stored question of the recipient has a
\* message identifier, and it is the head -- whatever the interleaving of the
\* producer and of the runs of answer at their awaits.
C14_OneDeliveredAtHead ==
  /\ Cardinality({i \in DOMAIN paranoia : paranoia[i].dmMessageId # Null}) <= 1
  /\ \A i \in DOMAIN paranoia : paranoia[i].dmMessageId # Null => i = 1

\* a run has delivered the new head, with a question stored behind it, while
\* the other run is in flight
C14_Witness ==
  /\ Len(paranoia) >= 2
  /\ paranoia[1].dmMessageId # Null
  /\ \E f \in AnswerReq :
       /\ SeqHas(answer[f].log, LogEntry("attach", paranoia[1].id))
       /\ \E g \in AnswerReq \ {f} : answer[g].pc \notin {"idle", "done"}

\* C15: the effects of one run come in the order relay, edit, removal,
\* notification, attachment; the next head is fetched only after the removal
\* of the answered question has completed, so the question fetched and
\* delivered next is never the one this run answered.
C15_NextAfterRemoval ==
  [][\A f \in AnswerReq :
       /\ Leaves(f, "next") =>
            /\ SeqHas(answer[f].log, LogEntry("remove", answer[f].data.id))
            /\ answer[f].data.id \notin StoredIds(paranoia)
            /\ answer'[f].next.id # answer[f].data.id
       /\ Len(answer'[f].log) > Len(answer[f].log) =>
            LET n == Len(answer'[f].log)
                new == answer'[f].log[n]
            IN /\ n = Len(answer[f].log) + 1
               /\ SubSeq(answer'[f].log, 1, n - 1) = answer[f].log
               /\ n > 1 => EffectRank(answer[f].log[n - 1].op) < EffectRank(new.op)
               /\ new.op \in {"notify", "attach"} => new.id # answer'[f].data.id
    ]_vars

\* a run went through all five effects and delivered the question behind the
\* one it answered
C15_Witness ==
  \E f \in AnswerReq :
    /\ answer[f].pc = "done"
    /\ answer[f].data.id = 1
    /\ answer[f].log = <<LogEntry("relay", 1), LogEntry("edit", 1),
                         LogEntry("remove", 1), LogEntry("notify", 2),
                         LogEntry("attach", 2)>>

\* C16 as stated: when the relay of the answer fails, the answered question
\* is removed all the same and the recipient is told that the answer went
\* through.
C16_RelayFailureStillRemoves ==
  \A f \in AnswerReq :
    (RelayFailed(answer[f]) /\ answer[f].pc = "done") =>
      /\ answer[f].data.id \notin StoredIds(paranoia)
      /\ SeqHas(answer[f].replies, "answerSent")

\* C16: when the relay of the answer fails, the run ends there: the store is
\* left as it is, so the question is not removed by this run; nothing is
\* edited, removed, sent or attached by it; and its only reply is the failure
\* notice -- the one that asks to try again when the send gave no message, the
\* generic one of the router when the send was rejected.
C16_RelayFailureKeepsEntry ==
  [][\A f \in AnswerReq :
       /\ (Leaves(f, "relay")
             /\ ~SeqHas(answer'[f].log, LogEntry("relay", answer[f].data.id))) =>
            /\ paranoia' = paranoia
            /\ answer'[f].pc = "done"
            /\ answer'[f].replies \in {<<"sendFailed">>, <<"failure">>}
            /\ answer'[f].raised = (answer'[f].replies = <<"failure">>)
       /\ RelayFailed(answer'[f]) =>
            /\ answer'[f].pc = "done"
            /\ answer'[f].log = <<>>
            /\ ~SeqHas(answer'[f].replies, "answerSent")
    ]_vars

\* the relay gave no message, the run is over with the notice alone, and the
\* question is still the head
C16_Witness ==
  \E f \in AnswerReq :
    /\ answer[f].pc = "done"
    /\ answer[f].replies = <<"sendFailed">>
    /\ paranoia # <<>>
    /\ paranoia[1] = answer[f].data

\* C17: a run that finds no head replies that there is no active question
\* and does nothing else: it sends and edits no message, removes no question
\* and attaches no message identifier.
C17_NoHeadNoEffects ==
  [][\A f \in AnswerReq :
       /\ (Leaves(f, "head") /\ paranoia = <<>>) =>
            /\ answer'[f] = [IdleAnswer EXCEPT !.pc = "done",
                                               !.replies = <<"noActive">>]
            /\ paranoia' = paranoia
            /\ delivering' = delivering
       /\ answer'[f].data = NoEntry =>
            /\ answer'[f].log = <<>>
            /\ answer'[f].pc \in {"idle", "head", "done"}
    ]_vars

\* after the only question was answered, a run found no head
C17_Witness ==
  \E f \in AnswerReq :
    /\ created > 0
    /\ paranoia = <<>>
    /\ answer[f].pc = "done"
    /\ answer[f].replies = <<"noActive">>
    /\ answer[f].log = <<>>

\* ------------------------------------------------------------- flush claims
\* C18: a flush sets the running average to
\* (old average * minutesPassed + total of this minute) / (minutesPassed + 1),
\* with minutesPassed as it was before the flush; it sets the total of this
\* minute and every per-command count of this minute to 0, adds exactly 1 to
\* minutesPassed and leaves every lifetime count as it is. No step lowers a
\* lifetime count, so after n dispatches of a command and a flush its
\* lifetime count is n and its count of this minute is 0.
C18_FlushAveragesAndResets ==
  [][/\ stats'.minutesPassed # stats.minutesPassed =>
          LET old == stats.perMinuteCommandAverage
              new == stats'.perMinuteCommandAverage
          IN /\ new.den > 0
             /\ new.num * (old.den * (stats.minutesPassed + 1)) =
                  (old.num * stats.minutesPassed
                     + stats.minuteCommandCount * old.den) * new.den
             /\ stats'.minuteCommandCount = 0
             /\ \A c \in Registered : stats'.minuteCommands[c] = 0
             /\ stats'.minutesPassed = stats.minutesPassed + 1
             /\ stats'.commands = stats.commands
     /\ \A c \in Registered : stats'.commands[c] >= stats.commands[c]
     /\ stats'.minutesPassed = stats.minutesPassed =>
          stats'.perMinuteCommandAverage = stats.perMinuteCommandAverage
    ]_vars

\* /dare was dispatched once in the first minute and once in the second;
\* after the second flush its lifetime count is 2, its count of this minute
\* is 0 and the average is (1 * 1 + 1) / 2 = 1
C18_Witness ==
  /\ stats.minutesPassed = 2
  /\ stats.commands["dare"] = 2
  /\ stats.minuteCommands["dare"] = 0
  /\ stats.minuteCommandCount = 0
  /\ stats.perMinuteCommandAverage = [num |-> 1, den |-> 1]

\* --------------------------------------------------------------- API claims
\* the request a takes its place in this step and is let through by the
\* limiter
ApiHandled(a) == api[a].pc = "idle" /\ api'[a].pc # "idle" /\ api'[a].status # 429

ValidType(x) == \E t \in QuestionType : toUpperCase[x.qtype] = t

\* the rating values a request carries
RatingValues(x) ==
  IF x.rating = NoRating THEN {}
  ELSE IF "str" \in DOMAIN x.rating THEN {x.rating.str}
  ELSE {x.rating.arr[i] : i \in DOMAIN x.rating.arr}

ValidRatingValue(v) == \E a \in Rating : toUpperCase[v] = a

\* the store is not asked: the answer is 400 at once
Refused(x) == x.pc = "responded" /\ x.status = 400 /\ x.disabled = {}

\* the store is asked with exactly the set D of ratings disabled
Queried(x, D) == x.pc = "query" /\ x.status = 0 /\ x.disabled = D

\* C19 as stated: a type outside the set is refused with 400; a valid type
\* with any rating value outside the set is refused with 400; a valid type
\* with no rating parameter queries with exactly R disabled; a valid type
\* with valid ratings queries with exactly the other ratings disabled.
C19_AnyRatingOutsideSetRefused ==
  [][\A a \in ApiReq :
       ApiHandled(a) =>
         LET x == api'[a] IN
           /\ ~ValidType(x) => Refused(x)
           /\ (ValidType(x) /\ \E v \in RatingValues(x) : ~ValidRatingValue(v)) =>
                Refused(x)
           /\ (ValidType(x) /\ x.rating = NoRating) => Queried(x, {"R"})
           /\ (ValidType(x) /\ RatingValues(x) # {}
                 /\ \A v \in RatingValues(x) : ValidRatingValue(v)) =>
                Queried(x, Rating \ {toUpperCase[v] : v \in RatingValues(x)})
    ]_vars

\* C19: a type outside the set is refused with 400 and the store is not
\* asked; a valid type with a rating value that is not empty and outside the
\* set (or an array holding one outside the set) is refused with 400 and the
\* store is not asked; a valid type with no rating parameter, or with an
\* empty one, queries the store with exactly R disabled; a valid type with
\* valid ratings queries the store with exactly the other ratings disabled.
\* A 400 is only ever sent straight away, never after a query.
C19_EmptyRatingIsDefault ==
  [][\A a \in ApiReq :
       /\ ApiHandled(a) =>
            LET x == api'[a] IN
              /\ ~ValidType(x) => Refused(x)
              /\ (ValidType(x) /\ x.rating # [str |-> ""]
                    /\ \E v \in RatingValues(x) : ~ValidRatingValue(v)) =>
                   Refused(x)
              /\ (ValidType(x) /\ x.rating \in {NoRating, [str |-> ""]}) =>
                   Queried(x, {"R"})
              /\ (ValidType(x) /\ RatingValues(x) # {}
                    /\ \A v \in RatingValues(x) : ValidRatingValue(v)) =>
                   Queried(x, Rating \ {toUpperCase[v] : v \in RatingValues(x)})
       /\ (api'[a].status = 400 /\ api[a].status # 400) => api[a].pc = "idle"
    ]_vars

\* a request with an empty rating got the default query while one with the
\* rating XX was refused
C19_Witness ==
  /\ api["a1"].qtype = "dare"
  /\ api["a1"].rating = [str |-> ""]
  /\ Queried(api["a1"], {"R"})
  /\ api["a2"].qtype = "dare"
  /\ api["a2"].rating = [str |-> "XX"]
  /\ Refused(api["a2"])

\* ----------------------------------------------------------- metrics claims
\* the header is "Bearer " followed by the secret, and a secret is configured
BearerOfSecret(authorization, secret) ==
  /\ secret # NotSet
  /\ authorization = Str(<<"Bearer ">> \o secret.str)

\* C20: GET /metrics gives the counters only to a request whose Authorization
\* header is the bearer credential of the configured secret; every other
\* request -- one without the header, and whether the secret is set or not --
\* is answered 401 and is given no metrics.
C20_MetricsOnlyForBearerOfSecret ==
  /\ metricsReq.phase = "collect" =>
       BearerOfSecret(metricsReq.authorization, metricsReq.secret)
  /\ metricsReq.phase = "responded" =>
       IF BearerOfSecret(metricsReq.authorization, metricsReq.secret)
       THEN metricsReq.status = 200 /\ metricsReq.body = "metrics"
       ELSE metricsReq.status = 401 /\ metricsReq.body # "metrics"

\* no header is sent, no secret is configured, and the metrics are sent
C20_DisclosedWithoutHeader ==
  /\ metricsReq.phase = "responded"
  /\ metricsReq.authorization = NotSet
  /\ metricsReq.secret = NotSet
  /\ metricsReq.status = 200
  /\ metricsReq.body = "metrics"

\* --------------------------------------------------- behaviour of the queue
\* the stored row with the identifier id
Row(store, id) == CHOOSE e \in {store[i] : i \in DOMAIN store} : e.id = id

\* the run f has the effect op on the row id in this step
Logs(f, op, id) ==
  /\ Len(answer'[f].log) = Len(answer[f].log) + 1
  /\ answer'[f].log[Len(answer'[f].log)] = LogEntry(op, id)

\* C21: a question goes from queued to delivered to answered: a run of
\* answer takes a row out of the store only when the row has a message
\* identifier, and a run attaches a message identifier only to a row that is
\* still stored.
C21_QueuedDeliveredAnswered ==
  [][/\ \A id \in StoredIds(paranoia) \ StoredIds(paranoia') :
          Row(paranoia, id).dmMessageId # Null
     /\ \A f \in AnswerReq, id \in 1..created :
          Logs(f, "attach", id) => id \in StoredIds(paranoia)
    ]_vars

\* C22: with runs of answer interleaved at their awaits, the answer to a
\* question is relayed by one run at most and the question is removed by one
\* run at most: two runs never both act on the same head.
C22_OneRunPerHead ==
  \A f, g \in AnswerReq :
    (/\ f # g
     /\ answer[f].data # NoEntry
     /\ answer[f].data.id = answer[g].data.id) =>
      /\ ~(/\ SeqHas(answer[f].log, LogEntry("relay", answer[f].data.id))
           /\ SeqHas(answer[g].log, LogEntry("relay", answer[g].data.id)))
      /\ ~(/\ SeqHas(answer[f].log, LogEntry("remove", answer[f].data.id))
           /\ SeqHas(answer[g].log, LogEntry("remove", answer[g].data.id)))

\* C23: over the whole run of the router and of the handler, the caller of an
\* interaction is sent one reply at most, also when the handler fails after
\* it has replied.
C23_AtMostOneReply ==
  \A f \in AnswerReq : Len(answer[f].replies) <= 1

\* C25: a run that has removed the answered question and finds a question
\* still stored goes on to notify the recipient of it, and once the
\* notification is sent attaches its message identifier to that question;
\* the new head is never passed over.
C25_NewHeadDelivered ==
  [][\A f \in AnswerReq :
       /\ (Leaves(f, "next") /\ paranoia # <<>>) =>
            answer'[f].pc = "guild" /\ answer'[f].next = paranoia[1]
       /\ Leaves(f, "guild") => answer'[f].pc = "notify"
       /\ (Leaves(f, "notify") /\ Logs(f, "notify", answer[f].next.id)) =>
            answer'[f].pc = "attach"
       /\ (Leaves(f, "attach") /\ answer[f].next.id \in StoredIds(paranoia)) =>
            /\ answer[f].next.id \in StoredIds(paranoia')
            /\ Row(paranoia', answer[f].next.id).dmMessageId # Null
    ]_vars

\* C26: when the edit of the notification fails in a run whose relay was
\* sent, the run goes on: it removes the question, acknowledges the answer
\* and fetches the next head; the failure does not raise.
C26_EditFailureGoesOn ==
  [][\A f \in AnswerReq :
       /\ (/\ Leaves(f, "edit")
           /\ SeqHas(answer[f].log, LogEntry("relay", answer[f].data.id))
           /\ ~Logs(f, "edit", answer[f].data.id)) =>
            /\ answer'[f].pc = "remove"
            /\ ~answer'[f].raised
            /\ answer'[f].replies = <<>>
       /\ (Leaves(f, "remove") /\ ~answer'[f].raised) =>
            /\ answer'[f].pc = "next"
            /\ answer'[f].replies = <<"answerSent">>
    ]_vars

\* ------------------------------------------------- invariants of the counts
\* the counts of this minute of all the registered commands, added up
RECURSIVE SumOver(_, _)
SumOver(counts, names) ==
  IF names = {} THEN 0
  ELSE LET c == CHOOSE n \in names : TRUE
       IN counts[c] + SumOver(counts, names \ {c})

\* C24: at all times the total of this minute is the sum of the per-command
\* counts of this minute over the registered commands, and no per-command
\* count of this minute is above the lifetime count of its command.
C24_MinuteCountsAddUp ==
  /\ stats.minuteCommandCount = SumOver(stats.minuteCommands, Registered)
  /\ \A c \in Registered : stats.minuteCommands[c] <= stats.commands[c]

\* after a flush, one command was dispatched once in the new minute and has
\* a lifetime count above its count of the minute
C24_Witness ==
  /\ stats.minutesPassed >= 1
  /\ stats.minuteCommandCount = 1
  /\ stats.minuteCommands["dare"] = 1
  /\ stats.commands["dare"] = 2
====
